---- MODULE Spec2Model ----
(***************************************************************************)
(* Apple Health export processing: HealthDataProcessor                     *)
(* (apple_health_processor.py), HealthDataReport (health_data_report.py)   *)
(* and the handlers of InteractiveHealthProcessor that drive them          *)
(* (interactive_health_processor.py).                                      *)
(*                                                                         *)
(* Python strings are sequences of one-character strings, so that the      *)
(* substring test, str.replace and the lexicographic order of sorted() are *)
(* computed character by character.  Floats are kept exactly, as integer   *)
(* tenths.                                                                 *)
(***************************************************************************)
EXTENDS Integers, Sequences, FiniteSets, TLC

VARIABLES
    doc,        \* the export file: the elements in the order iterparse ends them
    datasets,   \* HealthDataReport.datasets: insertion-ordered <<key, summary>> pairs
    last,       \* outcome of the last handler that ran
    recorded,   \* raw names add_dataset_summary was called with so far
    cname,      \* a raw metric name given to clean_metric_name
    couts       \* the results of cleaning cname, then cleaning the result, ...

vars == <<doc, datasets, last, recorded, cname, couts>>

-----------------------------------------------------------------------------
(* Bounds *)

MaxDocLen == 3      \* elements in the export file
MaxChunks == 4      \* pieces a raw metric name is assembled from
MaxCleanings == 2   \* successive applications of clean_metric_name

-----------------------------------------------------------------------------
(* Python values *)

\* None: never equal to a character sequence (those hold one-character strings)
None == <<"None">>

\* a typed cell of a DataFrame column
Null == [kind |-> "null", num |-> 0, str |-> <<>>]
Num(n) == [kind |-> "num", num |-> n, str |-> <<>>]
Time(t) == [kind |-> "time", num |-> t, str |-> <<>>]
Str(s) == [kind |-> "str", num |-> 0, str |-> s]
Raw(a) == IF a = None THEN Null ELSE Str(a)

\* ord(): code points of the characters that occur in metric names
CodePoint ==
    (" " :> 32) @@ ("(" :> 40) @@ (")" :> 41) @@
    ("C" :> 67) @@ ("D" :> 68) @@ ("H" :> 72) @@ ("I" :> 73) @@ ("K" :> 75) @@
    ("Q" :> 81) @@ ("S" :> 83) @@ ("T" :> 84) @@ ("W" :> 87) @@
    ("a" :> 97) @@ ("c" :> 99) @@ ("d" :> 100) @@ ("e" :> 101) @@ ("f" :> 102) @@
    ("g" :> 103) @@ ("i" :> 105) @@ ("k" :> 107) @@ ("l" :> 108) @@ ("n" :> 110) @@
    ("o" :> 111) @@ ("p" :> 112) @@ ("r" :> 114) @@ ("s" :> 115) @@ ("t" :> 116) @@
    ("u" :> 117) @@ ("y" :> 121)

\* str < str: by code point, a proper prefix first
RECURSIVE StrLess(_, _)
StrLess(a, b) ==
    IF b = <<>> THEN FALSE
    ELSE IF a = <<>> THEN TRUE
    ELSE IF a[1] # b[1] THEN CodePoint[a[1]] < CodePoint[b[1]]
    ELSE StrLess(Tail(a), Tail(b))

\* prefix in name
Contains(s, p) ==
    \E i \in 1..(Len(s) - Len(p) + 1) : SubSeq(s, i, i + Len(p) - 1) = p

\* s.replace(p, ''): every non-overlapping occurrence, left to right
RECURSIVE Remove(_, _)
Remove(s, p) ==
    IF Len(s) < Len(p) \/ p = <<>> THEN s
    ELSE IF SubSeq(s, 1, Len(p)) = p THEN Remove(SubSeq(s, Len(p) + 1, Len(s)), p)
    ELSE <<s[1]>> \o Remove(Tail(s), p)

-----------------------------------------------------------------------------
(* HealthDataReport.clean_metric_name *)

HKQuantity == <<"H","K","Q","u","a","n","t","i","t","y">>
HKCategory == <<"H","K","C","a","t","e","g","o","r","y">>
HKData == <<"H","K","D","a","t","a">>
TypeIdentifier == <<"T","y","p","e","I","d","e","n","t","i","f","i","e","r">>
StepCount == <<"S","t","e","p","C","o","u","n","t">>
Sleep == <<"S","l","e","e","p">>
Workouts == <<"W","o","r","k","o","u","t","s">>
QuantitySuffix == <<"(","Q","u","a","n","t","i","t","y",")">>
CategorySuffix == <<"(","C","a","t","e","g","o","r","y",")">>
DataSuffix == <<"(","D","a","t","a",")">>

\* a slip: the Category entry written first
TypeIndicatorsCategoryFirst ==
    << <<HKCategory \o TypeIdentifier, CategorySuffix>>,
       <<HKQuantity \o TypeIdentifier, QuantitySuffix>>,
       <<HKData \o TypeIdentifier, DataSuffix>> >>

\* the dict literal, in its iteration (insertion) order
type_indicators ==
    << <<HKQuantity \o TypeIdentifier, QuantitySuffix>>,
       <<HKCategory \o TypeIdentifier, CategorySuffix>>,
       <<HKData \o TypeIdentifier, DataSuffix>> >>

\* the for loop from its i-th item on: first prefix found in name wins (break)
RECURSIVE CleanFrom(_, _)
CleanFrom(name, i) ==
    IF i > Len(type_indicators) THEN name
    ELSE IF Contains(name, type_indicators[i][1])
         THEN Remove(name, type_indicators[i][1]) \o <<" ">> \o type_indicators[i][2]
         ELSE CleanFrom(name, i + 1)

clean_metric_name(name) == CleanFrom(name, 1)

-----------------------------------------------------------------------------
(* Raw metric names for the cleaning specification *)

Chunks == {HKQuantity, HKCategory, HKData, TypeIdentifier, StepCount,
           <<" ">> \o QuantitySuffix}

RECURSIVE NamesOf(_)
NamesOf(n) ==
    IF n = 0 THEN {<<>>}
    ELSE LET shorter == NamesOf(n - 1)
         IN  shorter \cup {s \o c : s \in shorter, c \in Chunks}

RawNames == NamesOf(MaxChunks)

-----------------------------------------------------------------------------
(* pandas conversions, on the raw attribute texts the documents carry *)

Date2020 == <<"2","0","2","0","-","0","1","-","0","1"," ","0","8",":","0","0",":","0","0"," ","+","0","0","0","0">>
Date2021 == <<"2","0","2","1","-","0","6","-","1","5"," ","1","2",":","3","0",":","0","0"," ","+","0","0","0","0">>
BadDate == <<"n","o","t","-","a","-","d","a","t","e">>

\* pd.to_datetime of one text: seconds since the epoch, or unparseable
DateParses(a) == a \in {Date2020, Date2021}
ParseDate(a) == IF a = Date2020 THEN 1577865600 ELSE 1623760200

\* pd.to_datetime(column), errors='raise': None becomes NaT, a malformed text raises
DatesRaise(col) == \E i \in 1..Len(col) : col[i] # None /\ ~DateParses(col[i])
to_datetime(col) ==
    [i \in 1..Len(col) |-> IF col[i] = None THEN Null ELSE Time(ParseDate(col[i]))]

Digit ==
    ("0" :> 0) @@ ("1" :> 1) @@ ("2" :> 2) @@ ("3" :> 3) @@ ("4" :> 4) @@
    ("5" :> 5) @@ ("6" :> 6) @@ ("7" :> 7) @@ ("8" :> 8) @@ ("9" :> 9)

\* a decimal literal: digits with at most one point
NumParses(a) ==
    /\ \A i \in 1..Len(a) : a[i] \in (DOMAIN Digit \cup {"."})
    /\ \E i \in 1..Len(a) : a[i] \in DOMAIN Digit
    /\ Cardinality({i \in 1..Len(a) : a[i] = "."}) <= 1

RECURSIVE DigitsValue(_)
DigitsValue(a) ==
    IF a = <<>> THEN 0 ELSE 10 * DigitsValue(SubSeq(a, 1, Len(a) - 1)) + Digit[a[Len(a)]]

\* the float a decimal literal denotes, in tenths (the documents carry at most
\* one fractional digit)
ParseNum(a) ==
    LET points == {i \in 1..Len(a) : a[i] = "."}
        p == IF points = {} THEN Len(a) + 1 ELSE CHOOSE i \in points : TRUE
        whole == SubSeq(a, 1, p - 1)
        frac == SubSeq(a, p + 1, Len(a))
    IN  10 * DigitsValue(whole) + (IF frac = <<>> THEN 0 ELSE Digit[frac[1]])

\* pd.to_numeric(column), errors='raise': raises on the first text that is no number
NumericRaises(col) == \E i \in 1..Len(col) : col[i] # None /\ ~NumParses(col[i])
to_numeric(col) ==
    [i \in 1..Len(col) |-> IF col[i] = None THEN Null ELSE Num(ParseNum(col[i]))]

\* a slip: one text that is no number disqualifies the whole column
CoerceWholeColumn(col) ==
    IF NumericRaises(col) THEN [i \in 1..Len(col) |-> Null] ELSE to_numeric(col)

\* pd.to_numeric(column, errors='coerce'): a text that is no number becomes NaN
to_numeric_coerce(col) ==
    [i \in 1..Len(col) |->
        IF col[i] = None \/ ~NumParses(col[i]) THEN Null ELSE Num(ParseNum(col[i]))]

-----------------------------------------------------------------------------
(* The export file *)

StepType == HKQuantity \o TypeIdentifier \o StepCount
SleepType == HKCategory \o TypeIdentifier \o Sleep
CleanedStepType == StepCount \o <<" ">> \o QuantitySuffix
EmptyType == <<>>

Elem(tag, type, startDate, endDate, value, duration, totalDistance, totalEnergyBurned) ==
    [tag |-> tag, type |-> type, startDate |-> startDate, endDate |-> endDate,
     value |-> value, duration |-> duration, totalDistance |-> totalDistance,
     totalEnergyBurned |-> totalEnergyBurned]

Record(type, startDate, endDate, value) ==
    Elem("Record", type, startDate, endDate, value, None, None, None)

Workout(type, startDate, endDate, duration, totalDistance, totalEnergyBurned) ==
    Elem("Workout", type, startDate, endDate, None, duration, totalDistance,
         totalEnergyBurned)

RecordElements ==
    { Record(StepType, Date2020, Date2020, <<"1",".","0">>),
      Record(StepType, Date2021, Date2021, <<"2",".","5">>),
      Record(StepType, Date2020, Date2021, <<"3",".","0">>),
      Record(StepType, Date2021, Date2021, <<"x">>),
      Record(StepType, BadDate, Date2020, <<"1",".","0">>),
      Record(StepType, None, Date2021, None),
      Record(SleepType, Date2020, BadDate, <<"x">>),
      Record(SleepType, Date2021, Date2021, <<"2",".","5">>),
      Record(EmptyType, Date2020, Date2020, <<"1",".","0">>),
      Record(None, Date2020, Date2020, <<"1",".","0">>) }

WorkoutElements ==
    { Workout(StepType, Date2020, Date2021, <<"2",".","5">>, <<"x">>, None),
      Workout(None, Date2021, Date2021, <<"x">>, <<"1",".","0">>, <<"3",".","0">>),
      Workout(None, Date2021, BadDate, <<"x">>, <<"1",".","0">>, <<"3",".","0">>) }

\* any other element of the file (Me, ExportDate, MetadataEntry, HealthData)
OtherElements ==
    { Elem("Me", None, None, None, None, None, None, None) }

Elements == RecordElements \cup WorkoutElements \cup OtherElements

\* the elements the report specification draws its files from
ReportElements ==
    { Record(StepType, Date2020, Date2020, <<"1","0","0">>),
      Record(StepType, Date2021, Date2021, <<"2","0","0">>),
      Record(StepType, Date2020, Date2021, <<"a","b","c">>),
      Record(StepType, None, Date2021, None),
      Workout(None, Date2020, Date2021, <<"2",".","5">>, <<"x">>, None) }

RECURSIVE SeqsUpTo(_, _)
SeqsUpTo(S, n) ==
    IF n = 0 THEN {<<>>}
    ELSE LET shorter == SeqsUpTo(S, n - 1)
         IN  shorter \cup {Append(s, e) : s \in shorter, e \in S}

\* the record types a caller asks parse_records_by_type for
Metrics == {StepType, SleepType, CleanedStepType, EmptyType}

\* the metrics a session saves: two of them clean to the same name
SavedMetrics == {StepType, SleepType, CleanedStepType}

-----------------------------------------------------------------------------
(* HealthDataProcessor *)

\* a DataFrame: column names, rows, and the columns whose dtype is numeric
EmptyFrame == [columns |-> <<>>, rows |-> <<>>, numeric |-> {}]

Returned(df, scanned) == [status |-> "ok", df |-> df, types |-> <<>>, scanned |-> scanned]
Raised(error, scanned) ==
    [status |-> error, df |-> EmptyFrame, types |-> <<>>, scanned |-> scanned]

\* ET.iterparse: failAt = 0 reads the whole file; failAt = k > 0 raises in place
\* of the k-th event (unreadable or malformed source), after k - 1 elements
Traversed(d, failAt) == IF failAt = 0 THEN d ELSE SubSeq(d, 1, failAt - 1)

\* a slip: the tag is not tested
MatchesAnyTag(elem, record_type) == elem.type = record_type

\* the test of the traversal loop of parse_records_by_type
MatchesRecord(elem, record_type) == elem.tag = "Record" /\ elem.type = record_type

\* the list the loop of parse_records_by_type appends to
RECURSIVE MatchingRecords(_, _)
MatchingRecords(d, record_type) ==
    IF d = <<>> THEN <<>>
    ELSE IF MatchesRecord(d[1], record_type)
         THEN <<d[1]>> \o MatchingRecords(Tail(d), record_type)
         ELSE MatchingRecords(Tail(d), record_type)

Column(records, field) == [i \in 1..Len(records) |-> records[i][field]]

RecordColumns == <<"startDate", "endDate", "value", "unit", "device", "sourceName">>

\* a slip: except ValueError
InnerTryCatchesValueErrorOnly(error) == error = "ValueError"

\* the inner try: except Exception catches whatever the conversion raises
\* (ValueError of pd.to_numeric, KeyError of df['value'] on an empty frame)
InnerTryCatches(error) == TRUE

\* a slip: errors='coerce', as process_workouts has it
ValueCoercionPerRow(col) == to_numeric_coerce(col)

\* the value column after pd.to_numeric: converted, or left as read when the
\* conversion raised and the inner try caught it
ValueCoercion(col) ==
    IF NumericRaises(col) THEN [i \in 1..Len(col) |-> Raw(col[i])] ELSE to_numeric(col)

\* a slip: the column is taken for numeric whatever the conversion did
ValueIsNumericAlways(col) == TRUE

\* whether the column's dtype is numeric after the conversion
ValueIsNumeric(col) == ~NumericRaises(col)

\* the code after the traversal loop: pd.DataFrame(records) and the conversions;
\* unit, device and sourceName are copied as read and carry no row data here
FrameFromRecords(records) ==
    LET n == Len(records)
        starts == Column(records, "startDate")
        ends == Column(records, "endDate")
        values == Column(records, "value")
        coerced == ValueCoercion(values)
    IN  IF n = 0
        THEN IF InnerTryCatches("KeyError") THEN Returned(EmptyFrame, 0)
             ELSE Raised("KeyError", 0)
        ELSE IF DatesRaise(starts) \/ DatesRaise(ends) THEN Raised("ValueError", n)
        ELSE IF NumericRaises(values) /\ ~InnerTryCatches("ValueError")
             THEN Raised("ValueError", n)
        ELSE Returned(
                [columns |-> RecordColumns,
                 rows |-> [i \in 1..n |->
                              [startDate |-> to_datetime(starts)[i],
                               endDate |-> to_datetime(ends)[i],
                               value |-> coerced[i]]],
                 numeric |-> IF ValueIsNumeric(values) THEN {"value"} ELSE {}],
                n)

\* a slip: the traversal error is swallowed and the rows read so far are returned
ParseSwallowingFailure(d, record_type, failAt) ==
    FrameFromRecords(MatchingRecords(Traversed(d, failAt), record_type))

parse_records_by_type(d, record_type, failAt) ==
    IF failAt # 0
    THEN Raised("ParseError", Len(MatchingRecords(Traversed(d, failAt), record_type)))
    ELSE FrameFromRecords(MatchingRecords(d, record_type))

\* sorted(list(record_types))
RECURSIVE Sorted(_)
Sorted(S) ==
    IF S = {} THEN <<>>
    ELSE LET least == CHOOSE x \in S : \A y \in S : x = y \/ StrLess(x, y)
         IN  <<least>> \o Sorted(S \ {least})

\* a slip: the tag is not tested
ContributesTypeAnyTag(elem) == elem.type # None /\ elem.type # <<>>

\* the test of the traversal loop of get_available_record_types:
\* a Record whose type attribute is present and not empty
ContributesType(elem) == elem.tag = "Record" /\ elem.type # None /\ elem.type # <<>>

get_available_record_types(d, failAt) ==
    LET seen == Traversed(d, failAt)
        record_types == {seen[i].type : i \in {j \in 1..Len(seen) : ContributesType(seen[j])}}
    IN  IF failAt # 0
        THEN Raised("ParseError", Cardinality(record_types))
        ELSE [status |-> "ok", df |-> EmptyFrame, types |-> Sorted(record_types),
              scanned |-> Cardinality(record_types)]

RECURSIVE MatchingWorkouts(_)
MatchingWorkouts(d) ==
    IF d = <<>> THEN <<>>
    ELSE IF d[1].tag = "Workout" THEN <<d[1]>> \o MatchingWorkouts(Tail(d))
         ELSE MatchingWorkouts(Tail(d))

WorkoutColumns ==
    <<"workoutActivityType", "duration", "startDate", "endDate", "totalDistance",
      "totalEnergyBurned", "sourceName">>

process_workouts(d, failAt) ==
    LET workouts == MatchingWorkouts(Traversed(d, failAt))
        n == Len(workouts)
        starts == Column(workouts, "startDate")
        ends == Column(workouts, "endDate")
    IN  IF failAt # 0 THEN Raised("ParseError", n)
        ELSE IF n = 0 THEN Returned(EmptyFrame, 0)
        ELSE IF DatesRaise(starts) \/ DatesRaise(ends)
             THEN Raised("ValueError", n)
        ELSE Returned(
                [columns |-> WorkoutColumns,
                 rows |-> [i \in 1..n |->
                              [startDate |-> to_datetime(starts)[i],
                               endDate |-> to_datetime(ends)[i],
                               duration |-> to_numeric_coerce(Column(workouts, "duration"))[i],
                               totalDistance |->
                                   to_numeric_coerce(Column(workouts, "totalDistance"))[i],
                               totalEnergyBurned |->
                                   to_numeric_coerce(Column(workouts, "totalEnergyBurned"))[i]]],
                 numeric |-> {"duration", "totalDistance", "totalEnergyBurned"}],
                n)

-----------------------------------------------------------------------------
(* HealthDataReport *)

RECURSIVE SumSeq(_)
SumSeq(xs) == IF xs = <<>> THEN 0 ELSE xs[1] + SumSeq(Tail(xs))

RECURSIVE InsertSorted(_, _)
InsertSorted(xs, x) ==
    IF xs = <<>> THEN <<x>>
    ELSE IF x <= xs[1] THEN <<x>> \o xs
    ELSE <<xs[1]>> \o InsertSorted(Tail(xs), x)

RECURSIVE SortNums(_)
SortNums(xs) == IF xs = <<>> THEN <<>> ELSE InsertSorted(SortNums(Tail(xs)), xs[1])

\* the numbers of a column, NaN and NaT skipped (skipna)
RECURSIVE NonNull(_)
NonNull(col) ==
    IF col = <<>> THEN <<>>
    ELSE IF col[1].kind = "null" THEN NonNull(Tail(col))
    ELSE <<col[1].num>> \o NonNull(Tail(col))

\* an exact quotient, and the square root of one
Ratio(n, d) == [kind |-> "ratio", num |-> n, den |-> d]
Root(n, d) == [kind |-> "sqrt", num |-> n, den |-> d]

SeriesMin(col) == LET xs == SortNums(NonNull(col)) IN IF xs = <<>> THEN Null ELSE Num(xs[1])
SeriesMax(col) ==
    LET xs == SortNums(NonNull(col)) IN IF xs = <<>> THEN Null ELSE Num(xs[Len(xs)])
SeriesMean(col) ==
    LET xs == NonNull(col) IN IF xs = <<>> THEN Null ELSE Ratio(SumSeq(xs), Len(xs))
SeriesMedian(col) ==
    LET xs == SortNums(NonNull(col))
        n == Len(xs)
    IN  IF n = 0 THEN Null
        ELSE IF n % 2 = 1 THEN Ratio(xs[(n + 1) \div 2], 1)
        ELSE Ratio(xs[n \div 2] + xs[n \div 2 + 1], 2)
SeriesStd(col) ==
    LET xs == NonNull(col)
        n == Len(xs)
        squares == [i \in 1..n |-> xs[i] * xs[i]]
    IN  IF n < 2 THEN Null
        ELSE Root(n * SumSeq(squares) - SumSeq(xs) * SumSeq(xs), n * (n - 1))

NoStats == [present |-> FALSE]

\* a slip: the statistics of a column of strings are not guarded
StatsNeverRaise(df) == FALSE

\* the try block of add_dataset_summary: mean() of a column of strings raises
\* TypeError, which leaves sample_stats None
StatsRaise(df) == "value" \notin df.numeric

SampleStats(df) ==
    LET col == Column(df.rows, "value")
    IN  [present |-> TRUE, mean |-> SeriesMean(col), median |-> SeriesMedian(col),
         std |-> SeriesStd(col), min |-> SeriesMin(col), max |-> SeriesMax(col)]

HasColumn(df, c) == \E i \in 1..Len(df.columns) : df.columns[i] = c

\* DatasetSummary(...); a missing timestamp, None or NaT, is Null
\* file_path.stat().st_size of the file df.to_csv has just written, counted in
\* lines of that file: the header line and one line per row
FileSize(df) == Len(df.rows) + 1

Summary(cleaned_name, df, file_path) ==
    LET starts == Column(df.rows, "startDate")
        asTime(c) == IF c.kind = "null" THEN Null ELSE Time(c.num)
    IN  [name |-> cleaned_name,
         record_count |-> Len(df.rows),
         date_range |-> IF HasColumn(df, "startDate")
                        THEN <<asTime(SeriesMin(starts)), asTime(SeriesMax(starts))>>
                        ELSE <<Null, Null>>,
         file_path |-> file_path,
         columns |-> df.columns,
         file_size |-> FileSize(df),
         data_types |-> df.numeric,
         sample_stats |-> IF HasColumn(df, "value") /\ ~StatsRaise(df)
                          THEN SampleStats(df) ELSE NoStats]

KeyIndex(dict, key) ==
    IF \E i \in 1..Len(dict) : dict[i][1] = key
    THEN CHOOSE i \in 1..Len(dict) : dict[i][1] = key
    ELSE 0

\* a slip: an ordered map that moves a rewritten key to the end
DictSetMoveToEnd(dict, key, value) ==
    Append(SelectSeq(dict, LAMBDA kv : kv[1] # key), <<key, value>>)

\* self.datasets[key] = value: a new key goes last, a present key keeps its place
DictSet(dict, key, value) ==
    IF KeyIndex(dict, key) = 0 THEN Append(dict, <<key, value>>)
    ELSE [dict EXCEPT ![KeyIndex(dict, key)] = <<key, value>>]

\* a slip: the entry is stored under the raw name it was given
AddUnderRawName(dict, name, df, file_path) ==
    DictSet(dict, name, Summary(clean_metric_name(name), df, file_path))

add_dataset_summary(dict, name, df, file_path) ==
    DictSet(dict, clean_metric_name(name),
            Summary(clean_metric_name(name), df, file_path))

\* cells of the report table: an int, and a str built from column names
Count(n) == [kind |-> "int", num |-> n, str |-> <<>>]
Text(t) == [kind |-> "text", num |-> 0, str |-> <<>>, text |-> t]

\* '; '.join(summary.columns)
RECURSIVE Join(_)
Join(names) ==
    IF names = <<>> THEN ""
    ELSE IF Len(names) = 1 THEN names[1]
    ELSE names[1] \o "; " \o Join(Tail(names))

\* the keys of the sample_stats dict, in its insertion order
StatKeys == <<"mean", "median", "std", "min", "max">>

\* the row dict create_report builds for one dataset, as <<column, cell>> pairs
\* in insertion order
ReportRow(name, summary) ==
    << <<"Dataset", Str(name)>>,
       <<"Records", Count(summary.record_count)>>,
       <<"Start Date", summary.date_range[1]>>,
       <<"End Date", summary.date_range[2]>>,
       <<"File", Str(summary.file_path)>>,
       <<"Size (KB)", Ratio(summary.file_size, 1024)>>,
       <<"Columns", Text(Join(summary.columns))>> >>
    \o (IF summary.sample_stats.present
        THEN [i \in 1..Len(StatKeys) |->
                 <<"Value " \o StatKeys[i], summary.sample_stats[StatKeys[i]]>>]
        ELSE <<>>)

\* a slip: the table takes its columns from its first row
ColumnsOfFirstRow(rows) ==
    IF rows = <<>> THEN <<>> ELSE [i \in 1..Len(rows[1]) |-> rows[1][i][1]]

\* pd.DataFrame(rows): the keys of the row dicts, each at its first appearance
RECURSIVE TableColumns(_)
TableColumns(rows) ==
    IF rows = <<>> THEN <<>>
    ELSE LET before == TableColumns(SubSeq(rows, 1, Len(rows) - 1))
             row == rows[Len(rows)]
             fresh == SelectSeq([i \in 1..Len(row) |-> row[i][1]],
                                LAMBDA c : \A j \in 1..Len(before) : before[j] # c)
         IN  before \o fresh

\* a DataFrame cell: the row's value for the column, NaN when the row has none
CellOf(row, column) ==
    IF \E i \in 1..Len(row) : row[i][1] = column
    THEN row[CHOOSE i \in 1..Len(row) : row[i][1] = column][2]
    ELSE Null

EmptyTable == [columns |-> <<>>, rows |-> <<>>]

create_report(dict) ==
    IF dict = <<>> THEN EmptyTable
    ELSE LET rows == [i \in 1..Len(dict) |-> ReportRow(dict[i][1], dict[i][2])]
             columns == TableColumns(rows)
         IN  [columns |-> columns,
              rows |-> [i \in 1..Len(rows) |->
                           [c \in {columns[j] : j \in 1..Len(columns)} |->
                               CellOf(rows[i], c)]]]

\* clean_name.split(' (')[0]
SplitHead(name) ==
    LET sep == <<" ", "(">>
        at == {i \in 1..(Len(name) - 1) : SubSeq(name, i, i + 1) = sep}
    IN  IF at = {} THEN name
        ELSE SubSeq(name, 1, (CHOOSE i \in at : \A j \in at : i <= j) - 1)

\* the files the handlers write below output_dir
MetricFile(metric) == SplitHead(clean_metric_name(metric)) \o <<".","c","s","v">>
WorkoutsFile == <<"w","o","r","k","o","u","t","s",".","c","s","v">>

-----------------------------------------------------------------------------
(* The handlers *)

Outcome(op, arg, failAt, result) ==
    [op |-> op, arg |-> arg, failAt |-> failAt, status |-> result.status,
     df |-> result.df, types |-> result.types, scanned |-> result.scanned,
     table |-> EmptyTable]

NoOutcome == Outcome("none", None, 0, Returned(EmptyFrame, 0))

\* where a traversal may fail: nowhere (0), or in place of any event, or at the
\* end of a truncated file
FailPoints == 0..(Len(doc) + 1)

\* the failures a session meets: none, or one in place of the file's last event
SessionFailPoints == {0, Len(doc)}

\* InteractiveHealthProcessor._save_metric_data: extract, then record; any
\* exception is caught and reported, and the report is not touched
SaveMetricData(metric, failAt) ==
    LET result == parse_records_by_type(doc, metric, failAt)
    IN  /\ last' = Outcome("records", metric, failAt, result)
        /\ IF result.status = "ok"
           THEN /\ datasets' = add_dataset_summary(datasets, metric, result.df,
                                                   MetricFile(metric))
                /\ recorded' = recorded \cup {metric}
           ELSE UNCHANGED <<datasets, recorded>>
        /\ UNCHANGED <<doc, cname, couts>>

\* InteractiveHealthProcessor._process_workouts
ProcessWorkouts(failAt) ==
    LET result == process_workouts(doc, failAt)
    IN  /\ last' = Outcome("workouts", Workouts, failAt, result)
        /\ IF result.status = "ok"
           THEN /\ datasets' = add_dataset_summary(datasets, Workouts, result.df,
                                                   WorkoutsFile)
                /\ recorded' = recorded \cup {Workouts}
           ELSE UNCHANGED <<datasets, recorded>>
        /\ UNCHANGED <<doc, cname, couts>>

\* HealthDataReport.save_report, after the metrics were processed: the table
\* create_report returns is what gets written
SaveReport ==
    /\ last' = [Outcome("report", None, 0, Returned(EmptyFrame, 0))
                    EXCEPT !.table = create_report(datasets)]
    /\ UNCHANGED <<doc, datasets, recorded, cname, couts>>

Init ==
    /\ doc \in SeqsUpTo(ReportElements, MaxDocLen) \ {<<>>}
    /\ datasets = <<>>
    /\ last = NoOutcome
    /\ recorded = {}
    /\ cname = <<>>
    /\ couts = <<>>

Next ==
    \/ \E metric \in SavedMetrics, failAt \in SessionFailPoints :
          SaveMetricData(metric, failAt)
    \/ \E failAt \in SessionFailPoints : ProcessWorkouts(failAt)
    \/ SaveReport

Spec == Init /\ [][Next]_vars

-----------------------------------------------------------------------------
(* The extraction functions alone, over a wider set of files *)

\* each function is pure: one application per file and argument shows all it does
ParseRecords(record_type, failAt) ==
    /\ last = NoOutcome
    /\ last' = Outcome("records", record_type, failAt,
                       parse_records_by_type(doc, record_type, failAt))
    /\ UNCHANGED <<doc, datasets, recorded, cname, couts>>

ParseWorkouts(failAt) ==
    /\ last = NoOutcome
    /\ last' = Outcome("workouts", Workouts, failAt, process_workouts(doc, failAt))
    /\ UNCHANGED <<doc, datasets, recorded, cname, couts>>

ListRecordTypes(failAt) ==
    /\ last = NoOutcome
    /\ last' = Outcome("types", None, failAt, get_available_record_types(doc, failAt))
    /\ UNCHANGED <<doc, datasets, recorded, cname, couts>>

InitExtract ==
    /\ doc \in SeqsUpTo(Elements, MaxDocLen) \ {<<>>}
    /\ datasets = <<>>
    /\ last = NoOutcome
    /\ recorded = {}
    /\ cname = <<>>
    /\ couts = <<>>

NextExtract ==
    \/ \E record_type \in Metrics, failAt \in FailPoints : ParseRecords(record_type, failAt)
    \/ \E failAt \in FailPoints : ParseWorkouts(failAt)
    \/ \E failAt \in FailPoints : ListRecordTypes(failAt)

SpecExtract == InitExtract /\ [][NextExtract]_vars

-----------------------------------------------------------------------------
(* clean_metric_name alone, applied to a raw name and to its own results *)

CleanAgain ==
    /\ Len(couts) < MaxCleanings
    /\ couts' = Append(couts, clean_metric_name(IF couts = <<>> THEN cname
                                                 ELSE couts[Len(couts)]))
    /\ UNCHANGED <<doc, datasets, last, recorded, cname>>

InitClean ==
    /\ cname \in RawNames
    /\ couts = <<>>
    /\ doc = <<>>
    /\ datasets = <<>>
    /\ last = NoOutcome
    /\ recorded = {}

NextClean == CleanAgain

SpecClean == InitClean /\ [][NextClean]_vars

-----------------------------------------------------------------------------
(* Properties *)

\* positions in the file of the Record elements of a type, counted on the file
\* itself, and the k-th of them in file order
RecordPositions(record_type) ==
    {i \in 1..Len(doc) : doc[i].tag = "Record" /\ doc[i].type = record_type}
NthOf(S, k) == CHOOSE i \in S : Cardinality({j \in S : j <= i}) = k

\* what a raw timestamp and a raw value read as
TimeOf(a) == IF a = None THEN Null ELSE Time(ParseDate(a))
NumberOf(a) == IF a = None THEN Null ELSE Num(ParseNum(a))
MalformedDate(a) == a # None /\ a \notin {Date2020, Date2021}
Unparseable(a) == a # None /\ ~NumParses(a)

RecordsReturned == last.op = "records" /\ last.status = "ok"

\* C1: whenever parse_records_by_type returns, its rows are exactly the Record
\* elements of the requested type, one row each, in document order, as many as
\* an independent count finds; Records of other types and Workouts give no row.
\* A call that does not return raised for a failed traversal or a malformed
\* date of a matching Record (C8, C9), never for the filtering.
C1_RowsAreMatchingRecords ==
    last.op = "records" =>
        LET at == RecordPositions(last.arg)
            rows == last.df.rows
        IN  /\ last.status = "ok" =>
                /\ Len(rows) = Cardinality(at)
                /\ \A k \in 1..Len(rows) :
                      LET elem == doc[NthOf(at, k)]
                      IN  /\ rows[k].startDate = TimeOf(elem.startDate)
                          /\ rows[k].endDate = TimeOf(elem.endDate)
                          /\ rows[k].value = IF "value" \in last.df.numeric
                                             THEN NumberOf(elem.value)
                                             ELSE Raw(elem.value)
            /\ last.status # "ok" =>
                \/ last.failAt # 0
                \/ \E i \in at : MalformedDate(doc[i].startDate) \/ MalformedDate(doc[i].endDate)

\* C1 witness: two rows returned in file order from a file whose third element
\* is a Workout carrying the requested type
C1_Witness ==
    /\ RecordsReturned
    /\ Len(doc) = 3 /\ Len(last.df.rows) = 2
    /\ \E i \in 1..3 : doc[i].tag = "Workout" /\ doc[i].type = last.arg
    /\ last.df.rows[1].value # last.df.rows[2].value

TypesReturned == last.op = "types" /\ last.status = "ok"
ListedTypes == {last.types[i] : i \in 1..Len(last.types)}

\* C2 as stated: the list holds the type attribute of every Record element
C2_AllRecordTypesListed ==
    TypesReturned =>
        /\ ListedTypes = {doc[i].type : i \in {j \in 1..Len(doc) :
                                doc[j].tag = "Record" /\ doc[j].type # None}}
        /\ \A i \in 1..(Len(last.types) - 1) : StrLess(last.types[i], last.types[i + 1])

\* C2 (amended): get_available_record_types returns the non-empty type
\* attributes of the Record elements, in strictly ascending lexicographic order
\* (so without duplicates); a Record whose type attribute is the empty string,
\* and every Workout, contributes nothing.
C2_NonEmptyRecordTypesSorted ==
    TypesReturned =>
        /\ ListedTypes = {doc[i].type : i \in {j \in 1..Len(doc) :
                                doc[j].tag = "Record" /\ doc[j].type \notin {None, <<>>}}}
        /\ \A i \in 1..(Len(last.types) - 1) : StrLess(last.types[i], last.types[i + 1])

\* C2 witness: two Records listed in the order opposite to the file's, beside a
\* Record with an empty type
C2_Witness ==
    /\ TypesReturned
    /\ Len(doc) = 3
    /\ doc[1].tag = "Record" /\ doc[1].type = StepType
    /\ doc[2].tag = "Record" /\ doc[2].type = SleepType
    /\ doc[3].tag = "Record" /\ doc[3].type = EmptyType
    /\ last.types = <<SleepType, StepType>>

\* C3: cleaning a cleaned name changes nothing
C3_CleanIdempotent == Len(couts) >= 2 => couts[2] = couts[1]

\* the key a recording call writes, and the positions the report holds it at
Keys(dict) == {dict[i][1] : i \in 1..Len(dict)}
Recording == last'.status = "ok" /\ last'.op \in {"records", "workouts"}

\* C4: the report lists its entries in the order their cleaned names were first
\* recorded: each recording step keeps every present key at its position, puts
\* a new key last, stores the latest summary under the recorded key and leaves
\* every other entry as it was.
C4_FirstRecordedOrderKept ==
    [][ /\ Len(datasets') >= Len(datasets)
        /\ \A i \in 1..Len(datasets) : datasets'[i][1] = datasets[i][1]
        /\ Recording =>
              LET key == clean_metric_name(last'.arg)
              IN  /\ key \in Keys(datasets) => Len(datasets') = Len(datasets)
                  /\ key \notin Keys(datasets) =>
                        /\ Len(datasets') = Len(datasets) + 1
                        /\ datasets'[Len(datasets')][1] = key
                  /\ \A i \in 1..Len(datasets') :
                        IF datasets'[i][1] = key
                        THEN /\ datasets'[i][2].name = key
                             /\ datasets'[i][2].record_count = Len(last'.df.rows)
                             /\ datasets'[i][2].columns = last'.df.columns
                        ELSE datasets'[i] = datasets[i]
      ]_vars

\* C4 witness: the last call re-recorded the name held at the first of two
\* positions, under another raw name, and its summary is the one stored there
C4_Witness ==
    /\ Len(datasets) = 2
    /\ last.op = "records" /\ last.status = "ok" /\ last.arg = CleanedStepType
    /\ StepType \in recorded
    /\ datasets[1][1] = clean_metric_name(last.arg)
    /\ datasets[1][2].record_count = 0
    /\ \E i \in 1..Len(doc) : doc[i].tag = "Record" /\ doc[i].type = StepType

\* raw values of the Records of the requested type, in file order
RawValues(record_type) ==
    LET at == RecordPositions(record_type)
    IN  [k \in 1..Cardinality(at) |-> doc[NthOf(at, k)].value]

\* C5: the value column is coerced all or nothing. When every value present
\* parses, the column is numeric and holds the parsed numbers; when one does
\* not, the column is not numeric and holds every text as read; and the call
\* returns all rows either way: it raises only for a failed traversal or a
\* malformed date, never for a value.
C5_AllOrNothing ==
    last.op = "records" =>
        LET raw == RawValues(last.arg)
            rows == last.df.rows
        IN  /\ (last.status = "ok" /\ raw # <<>>) =>
                /\ Len(rows) = Len(raw)
                /\ IF \E k \in 1..Len(raw) : Unparseable(raw[k])
                   THEN /\ "value" \notin last.df.numeric
                        /\ \A k \in 1..Len(raw) : rows[k].value = Raw(raw[k])
                   ELSE /\ "value" \in last.df.numeric
                        /\ \A k \in 1..Len(raw) : rows[k].value = NumberOf(raw[k])
            /\ last.status # "ok" =>
                \/ last.failAt # 0
                \/ \E i \in RecordPositions(last.arg) :
                      MalformedDate(doc[i].startDate) \/ MalformedDate(doc[i].endDate)

\* C5 witness: "1.0", "2.5", "x" comes back as the three texts
C5_Witness ==
    /\ RecordsReturned
    /\ RawValues(last.arg) = << <<"1",".","0">>, <<"2",".","5">>, <<"x">> >>
    /\ Column(last.df.rows, "value") =
          << Str(<<"1",".","0">>), Str(<<"2",".","5">>), Str(<<"x">>) >>
    /\ last.df.numeric = {}

\* the summary the report holds under a key
SummaryOf(key) == datasets[KeyIndex(datasets, key)][2]

\* C6: a summary has sample_stats exactly when its dataset has a numeric value
\* column and at least one row. For the summary just recorded that is judged
\* on the file: the call extracted Records, at least one, and every value
\* present among them parses. Two parseable values and an unparseable one give
\* a summary of 3 rows without sample_stats.
C6_StatsIffNumericNonEmpty ==
    /\ \A i \in 1..Len(datasets) :
          datasets[i][2].sample_stats.present <=>
              ("value" \in datasets[i][2].data_types /\ datasets[i][2].record_count >= 1)
    /\ (last.status = "ok" /\ last.op \in {"records", "workouts"}) =>
          LET summary == SummaryOf(clean_metric_name(last.arg))
              raw == RawValues(last.arg)
          IN  /\ summary.sample_stats.present <=>
                    /\ last.op = "records"
                    /\ raw # <<>>
                    /\ \A k \in 1..Len(raw) : ~Unparseable(raw[k])
              /\ summary.record_count =
                    IF last.op = "records" THEN Len(raw)
                    ELSE Cardinality({i \in 1..Len(doc) : doc[i].tag = "Workout"})

\* C6 witness: "100", "200", "abc" recorded: 3 rows, no sample_stats
C6_Witness ==
    /\ RecordsReturned
    /\ RawValues(last.arg) = << <<"1","0","0">>, <<"2","0","0">>, <<"a","b","c">> >>
    /\ SummaryOf(clean_metric_name(last.arg)).record_count = 3
    /\ SummaryOf(clean_metric_name(last.arg)).sample_stats = NoStats

\* C7: with no Record of the requested type in the file, the extraction returns
\* no rows without raising, and the summary recorded for it has record_count 0,
\* date_range (null, null) and no sample_stats.
C7_NoMatchGivesEmptySummary ==
    (last.op = "records" /\ last.failAt = 0 /\ RecordPositions(last.arg) = {}) =>
        /\ last.status = "ok"
        /\ last.df.rows = <<>>
        /\ clean_metric_name(last.arg) \in Keys(datasets)
        /\ SummaryOf(clean_metric_name(last.arg)).record_count = 0
        /\ SummaryOf(clean_metric_name(last.arg)).date_range = <<Null, Null>>
        /\ SummaryOf(clean_metric_name(last.arg)).sample_stats = NoStats

\* C7 witness: a type without Records was requested of a file that holds
\* Records of another type, and the empty summary is the only entry
C7_Witness ==
    /\ RecordsReturned /\ last.arg = SleepType
    /\ RecordPositions(SleepType) = {} /\ RecordPositions(StepType) # {}
    /\ Len(datasets) = 1
    /\ datasets[1][2].record_count = 0

\* C8: a malformed startDate or endDate never makes parse_records_by_type
\* raise: the call returns every matching row, with a null timestamp where the
\* text was malformed
C8_MalformedDateGivesNull ==
    (last.op = "records" /\ last.failAt = 0) =>
        /\ last.status = "ok"
        /\ Len(last.df.rows) = Cardinality(RecordPositions(last.arg))
        /\ \A k \in 1..Len(last.df.rows) :
              LET elem == doc[NthOf(RecordPositions(last.arg), k)]
              IN  /\ MalformedDate(elem.startDate) => last.df.rows[k].startDate = Null
                  /\ MalformedDate(elem.endDate) => last.df.rows[k].endDate = Null

\* C9: a traversal failure aborts that call only. The error reaches the
\* handler, no row of the call is kept, and the report is what it was: its
\* keys, their order and their summaries.
C9_FailedCallLeavesReport ==
    [][ last'.failAt # 0 =>
            /\ last'.status = "ParseError"
            /\ last'.df = EmptyFrame
            /\ datasets' = datasets
            /\ recorded' = recorded
      ]_vars

\* C9 witness: a call failed after it had accumulated rows, and the entry an
\* earlier call recorded is still in the report
C9_Witness ==
    /\ last.op = "records" /\ last.status = "ParseError" /\ last.scanned >= 1
    /\ last.df.rows = <<>>
    /\ Len(datasets) >= 1
    /\ datasets[1][2].record_count >= 1

\* C10 as stated: an unparseable value among parseable ones becomes null and
\* the column stays numeric
C10_UnparseableBecomesNull ==
    (RecordsReturned /\ \E k \in 1..Len(RawValues(last.arg)) :
                            ~Unparseable(RawValues(last.arg)[k])
                            /\ RawValues(last.arg)[k] # None) =>
        /\ "value" \in last.df.numeric
        /\ \A k \in 1..Len(last.df.rows) :
              Unparseable(RawValues(last.arg)[k]) => last.df.rows[k].value = Null

\* C10 (amended): an unparseable value is never turned into null, and it takes
\* the column's numeric type away: it comes back as the text read, and so does
\* every other value of that column, parseable or not. Null stands only in the
\* rows of Records that carry no value attribute.
C10_UnparseableKeepsColumnText ==
    RecordsReturned =>
        LET raw == RawValues(last.arg)
            rows == last.df.rows
        IN  \A k \in 1..Len(rows) :
              /\ rows[k].value = Null <=> raw[k] = None
              /\ Unparseable(raw[k]) =>
                    /\ "value" \notin last.df.numeric
                    /\ \A j \in 1..Len(rows) : raw[j] # None => rows[j].value = Str(raw[j])

\* C10 witness: a parseable value, an unparseable one and an absent one
C10_Witness ==
    /\ RecordsReturned
    /\ Len(last.df.rows) = 3
    /\ \E k \in 1..3 : Unparseable(RawValues(last.arg)[k])
    /\ \E k \in 1..3 : RawValues(last.arg)[k] = <<"1",".","0">>
                       /\ last.df.rows[k].value = Str(<<"1",".","0">>)
    /\ \E k \in 1..3 : RawValues(last.arg)[k] = None /\ last.df.rows[k].value = Null

\* positions of the Workout elements in the file
WorkoutPositions == {i \in 1..Len(doc) : doc[i].tag = "Workout"}

\* what one raw workout number reads as on its own
CoercedAlone(a) == IF a = None \/ Unparseable(a) THEN Null ELSE Num(ParseNum(a))

\* C11: whenever process_workouts returns, it gives one row per Workout element
\* in file order, and each of duration, totalDistance and totalEnergyBurned is
\* coerced value by value: a text that is no number (or an absent attribute) is
\* null in its own row and column, and every other value is the number it
\* denotes, whatever the rest of its column or row holds. A call that does not
\* return raised for a failed traversal or a malformed date (C8).
C11_WorkoutNumbersPerRow ==
    last.op = "workouts" =>
        LET rows == last.df.rows
        IN  /\ last.status = "ok" =>
                /\ Len(rows) = Cardinality(WorkoutPositions)
                /\ \A k \in 1..Len(rows) :
                      LET elem == doc[NthOf(WorkoutPositions, k)]
                      IN  /\ rows[k].duration = CoercedAlone(elem.duration)
                          /\ rows[k].totalDistance = CoercedAlone(elem.totalDistance)
                          /\ rows[k].totalEnergyBurned = CoercedAlone(elem.totalEnergyBurned)
                          /\ rows[k].startDate = TimeOf(elem.startDate)
            /\ last.status # "ok" =>
                \/ last.failAt # 0
                \/ \E i \in WorkoutPositions :
                      MalformedDate(doc[i].startDate) \/ MalformedDate(doc[i].endDate)

\* C11 witness: two workouts around another element; the first has a number for
\* its duration and none for its distance, the second the other way round
C11_Witness ==
    /\ last.op = "workouts" /\ last.status = "ok"
    /\ Len(doc) = 3 /\ WorkoutPositions = {1, 3}
    /\ Unparseable(doc[1].totalDistance) /\ Unparseable(doc[3].duration)
    /\ last.df.rows[1].duration = Num(25) /\ last.df.rows[1].totalDistance = Null
    /\ last.df.rows[2].duration = Null /\ last.df.rows[2].totalDistance = Num(10)
    /\ last.df.rows[2].totalEnergyBurned = Num(30)

\* the three markers and what is appended for each, written out
QuantityMarker ==
    <<"H","K","Q","u","a","n","t","i","t","y","T","y","p","e","I","d","e","n","t","i","f","i","e","r">>
CategoryMarker ==
    <<"H","K","C","a","t","e","g","o","r","y","T","y","p","e","I","d","e","n","t","i","f","i","e","r">>
DataMarker ==
    <<"H","K","D","a","t","a","T","y","p","e","I","d","e","n","t","i","f","i","e","r">>
QuantityEnding == <<" ","(","Q","u","a","n","t","i","t","y",")">>
CategoryEnding == <<" ","(","C","a","t","e","g","o","r","y",")">>
DataEnding == <<" ","(","D","a","t","a",")">>

\* C12: clean_metric_name tries the markers in the order Quantity, Category,
\* Data. The first one found in the name is stripped from it and its suffix,
\* and no other, is appended; a name that holds no marker comes back as it is.
\* "HKQuantityTypeIdentifierStepCount" gives "StepCount (Quantity)".
C12_FirstMarkerInOrderWins ==
    Len(couts) >= 1 =>
        /\ couts[1] =
              IF Contains(cname, QuantityMarker)
              THEN Remove(cname, QuantityMarker) \o QuantityEnding
              ELSE IF Contains(cname, CategoryMarker)
              THEN Remove(cname, CategoryMarker) \o CategoryEnding
              ELSE IF Contains(cname, DataMarker)
              THEN Remove(cname, DataMarker) \o DataEnding
              ELSE cname
        /\ Len(couts[1]) <= Len(cname) - Len(DataMarker) + Len(QuantityEnding)
              \/ couts[1] = cname
        /\ cname = QuantityMarker \o <<"S","t","e","p","C","o","u","n","t">> =>
              couts[1] = <<"S","t","e","p","C","o","u","n","t"," ",
                           "(","Q","u","a","n","t","i","t","y",")">>

\* C12 witness: the Category marker stands before the Quantity marker in the
\* name, and the Quantity marker is the one stripped and suffixed
C12_Witness ==
    /\ Len(couts) >= 1
    /\ cname = CategoryMarker \o QuantityMarker
    /\ couts[1] = CategoryMarker \o QuantityEnding

\* ---- C13: the table create_report returns ----

ReportReturned == last.op = "report"

FixedColumns ==
    {"Dataset", "Records", "Start Date", "End Date", "File", "Size (KB)", "Columns"}

StatColumn ==
    [mean |-> "Value mean", median |-> "Value median", std |-> "Value std",
     min |-> "Value min", max |-> "Value max"]

HasStats(i) == datasets[i][2].sample_stats.present

\* the "Value <stat>" columns of statistics at least one dataset has
ExpectedValueColumns ==
    {StatColumn[k] : k \in {k \in DOMAIN StatColumn : \E i \in 1..Len(datasets) : HasStats(i)}}

ColumnsOfTable == {last.table.columns[j] : j \in 1..Len(last.table.columns)}

\* row i of the table describes the i-th dataset of the report, and holds null
\* in every statistic column when that dataset has no statistics
RowDescribes(i) ==
    LET row == last.table.rows[i]
        summary == datasets[i][2]
    IN  /\ DOMAIN row = ColumnsOfTable
        /\ FixedColumns \subseteq DOMAIN row
        /\ row["Dataset"] = Str(datasets[i][1])
        /\ row["Records"].num = summary.record_count
        /\ row["Start Date"] = summary.date_range[1]
        /\ row["End Date"] = summary.date_range[2]
        /\ row["File"] = Str(summary.file_path)
        /\ row["Size (KB)"] = Ratio(summary.file_size, 1024)
        /\ row["Columns"].text = Join(summary.columns)
        /\ \A k \in DOMAIN StatColumn :
              StatColumn[k] \in DOMAIN row =>
                  row[StatColumn[k]] = IF HasStats(i) THEN summary.sample_stats[k]
                                       ELSE Null

RowsFollowReport ==
    /\ Len(last.table.rows) = Len(datasets)
    /\ \A i \in 1..Len(datasets) : RowDescribes(i)

\* C13, as stated: create_report returns one row per dataset of the report, in
\* insertion order, and the table has the fixed columns plus a "Value <stat>"
\* column for every statistic at least one dataset has, null where a dataset
\* lacks it
C13_ReportHasFixedColumns ==
    ReportReturned =>
        /\ RowsFollowReport
        /\ ColumnsOfTable = FixedColumns \cup ExpectedValueColumns

\* C13, amended: the same for a report that holds a dataset; the table of an
\* empty report has no rows and no columns at all
C13_ReportRowsAndColumns ==
    ReportReturned =>
        /\ RowsFollowReport
        /\ IF datasets = <<>>
           THEN last.table.columns = <<>>
           ELSE /\ ColumnsOfTable = FixedColumns \cup ExpectedValueColumns
                /\ Len(last.table.columns) = Cardinality(ColumnsOfTable)

\* a report whose first dataset has no statistics and a later one has them
C13_Witness ==
    /\ ReportReturned
    /\ Len(datasets) >= 2
    /\ ~HasStats(1)
    /\ \E i \in 2..Len(datasets) : HasStats(i)
    /\ last.table.rows[1]["Value mean"] = Null

\* ---- C14: the report map ----

CleanedRecorded == {clean_metric_name(raw) : raw \in recorded}

\* C14: every key of the report is the name of the summary stored under it and
\* the cleaned form of a raw name recorded so far; the report has one entry per
\* distinct cleaned name recorded, so never more entries than recorded names;
\* and the entry of the name recorded last holds the summary of that call
C14_ReportKeyedByCleanedName ==
    /\ \A i \in 1..Len(datasets) :
          /\ datasets[i][1] = datasets[i][2].name
          /\ datasets[i][1] \in CleanedRecorded
          /\ \A j \in 1..Len(datasets) : datasets[j][1] = datasets[i][1] => j = i
    /\ Len(datasets) = Cardinality(CleanedRecorded)
    /\ Len(datasets) <= Cardinality(recorded)
    /\ (last.op \in {"records", "workouts"} /\ last.status = "ok") =>
          \E i \in 1..Len(datasets) :
              /\ datasets[i][1] = clean_metric_name(last.arg)
              /\ datasets[i][2].record_count = Len(last.df.rows)
              /\ datasets[i][2].columns = last.df.columns

\* two raw names that clean to one name were recorded and share one entry, which
\* holds the summary of the later call
C14_Witness ==
    /\ {StepType, CleanedStepType} \subseteq recorded
    /\ \E k \in 1..Len(doc) : doc[k].tag = "Record" /\ doc[k].type = StepType
    /\ clean_metric_name(StepType) = clean_metric_name(CleanedStepType)
    /\ Cardinality(recorded) > Len(datasets)
    /\ last.op = "records" /\ last.status = "ok" /\ last.arg = CleanedStepType
    /\ \E i \in 1..Len(datasets) :
          /\ datasets[i][1] = CleanedStepType
          /\ datasets[i][2].record_count = 0

====
